---- MODULE Spec2Model ----
(***************************************************************************)
(* Model of app.js: an Express application offering CRUD on an "items"     *)
(* collection and registration on a "users" collection, both kept in       *)
(* MongoDB.  Every route handler is an async function: it runs its         *)
(* synchronous prefix (validation) when the request is dispatched, then    *)
(* suspends at each await and resumes when the awaited call settles.       *)
(* Several requests may be suspended at the same time; each store call is  *)
(* atomic and takes effect in the step in which it settles.                *)
(***************************************************************************)
EXTENDS Integers, Sequences, FiniteSets, TLC

\* ------------------------------------------------------------------------
\* Bounds of the model
\* ------------------------------------------------------------------------
MaxInFlight == 2        \* requests that may be suspended at the same time
MaxItems == 1           \* ObjectIds the items collection generates in a run
MaxUsers == 2           \* ObjectIds the users collection generates in a run

Slots == 1..MaxInFlight
ItemIds == 1..MaxItems

\* ------------------------------------------------------------------------
\* JavaScript values carried by request bodies and documents
\* ------------------------------------------------------------------------
Undefined == [t |-> "undefined", s |-> "", n |-> 0]
Null == [t |-> "null", s |-> "", n |-> 0]
Str(x) == [t |-> "string", s |-> x, n |-> 0]
Num(k) == [t |-> "number", s |-> "", n |-> k]

\* typeof v
TypeOf(v) == IF v.t = "null" THEN "object" ELSE v.t

\* ToBoolean(v), as used by !v and by v && ...
Truthy(v) ==
    CASE v.t = "string" -> v.s # ""
      [] v.t = "number" -> v.n # 0
      [] OTHER -> FALSE

\* The driver's BSON serializer (ignoreUndefined is left at its default,
\* false): a field whose value is undefined is written as null.
BsonSerialize(v) == IF v.t = "undefined" THEN Null ELSE v

\* ------------------------------------------------------------------------
\* Request inputs
\* ------------------------------------------------------------------------
NameInputs == {Undefined, Str(""), Str("Pen"), Num(5)}
PriceInputs == {Undefined, Num(0), Num(-1), Num(1), Num(2), Str("9")}
\* extra: the body has a key other than name and price
Bodies ==
    [name : NameInputs, price : PriceInputs, extra : {FALSE}]
        \cup {[name |-> Undefined, price |-> Undefined, extra |-> TRUE]}

\* Path identifiers: the 24-digit hex string of an ObjectId, or a string
\* that is no ObjectId at all.
HexString(oid) == [hex |-> TRUE, oid |-> oid]
BadId == [hex |-> FALSE, oid |-> 0]
NoId == [hex |-> FALSE, oid |-> -1]
IdInputs == {BadId} \cup {HexString(i) : i \in ItemIds}

UsernameInputs == {Undefined, Str(""), Str("ann"), Str("bob")}
PasswordInputs == {Undefined, Str(""), Str("12345"), Str("secret"), Num(123456)}

Salts == {"salt"}
NoSalt == ""
NoHash == [salt |-> "", digest |-> ""]

\* ------------------------------------------------------------------------
\* State
\* ------------------------------------------------------------------------
VARIABLES
    items,        \* itemsCollection: _id -> [name, price]
    nextItemId,   \* next ObjectId the items collection generates
    users,        \* usersCollection: sequence of [username, password], _id = index
    req,          \* per slot: the suspended handler (its await and its locals)
    resp,         \* the response sent by the last step, NoResp if it sent none
    in,           \* the request the router dispatched last, where it is observed
    fresh,        \* history: created and not since matched by update/delete -> body sent
    deleted,      \* history: ids for which DELETE answered 200
    main,         \* startApplication: the call it awaits, "listening" or "exited"
    itemsCollection,  \* the global handle: Unassigned or the collection's name
    usersCollection,  \* the global handle: Unassigned or the collection's name
    thrown        \* the call awaited by the last step rejected or threw

vars == <<items, nextItemId, users, req, resp, in, fresh, deleted,
          main, itemsCollection, usersCollection, thrown>>

\* `let itemsCollection;` before connectToDatabase assigns it
Unassigned == "undefined"

Idle ==
    [pc |-> "idle", requestedID |-> NoId, name |-> Undefined, price |-> Undefined,
     username |-> Undefined, password |-> Undefined, salt |-> NoSalt,
     hashedPassword |-> NoHash]

EmptyItems == [i \in {} |-> [name |-> Null, price |-> Null]]

\* A response: the route and path identifier of the request it answers, the
\* status, and the JSON body (message, _id / updatedId / userId, name, price,
\* or the array of all items).  No handler puts a `password` key in a body.
Response(op, requestedID, status, message, id, name, price, list) ==
    [op |-> op, requestedID |-> requestedID, status |-> status, message |-> message,
     id |-> id, name |-> name, price |-> price, list |-> list, password |-> NoHash]
Message(op, requestedID, status, message) ==
    Response(op, requestedID, status, message, 0, Undefined, Undefined, EmptyItems)
NoResp == Message("", NoId, 0, "")

NoRequest ==
    [op |-> "", requestedID |-> NoId,
     body |-> [name |-> Undefined, price |-> Undefined, extra |-> FALSE],
     username |-> Undefined, password |-> Undefined]

Init ==
    /\ items = EmptyItems
    /\ nextItemId = 1
    /\ users = <<>>
    /\ req = [r \in Slots |-> Idle]
    /\ resp = NoResp
    /\ in = NoRequest
    /\ fresh = EmptyItems
    /\ deleted = {}
    /\ main = "client.connect"
    /\ itemsCollection = Unassigned
    /\ usersCollection = Unassigned
    /\ thrown = FALSE

Pending(pcs) == Cardinality({r \in Slots : req[r].pc \in pcs})

Without(f, id) == [i \in DOMAIN f \ {id} |-> f[i]]

\* ------------------------------------------------------------------------
\* Library calls
\* ------------------------------------------------------------------------
\* Mutant: every path identifier is taken for an ObjectId
ObjectIdIsValid_Any(id) == TRUE

\* ObjectId.isValid(requestedID)
ObjectIdIsValid(id) == id.hex

\* new ObjectId(requestedID)
NewObjectId(id) == id.oid

\* bcrypt.hash(password, salt)
BcryptHash(password, salt) == [salt |-> salt, digest |-> password.s]

\* ------------------------------------------------------------------------
\* connectToDatabase, startApplication
\* ------------------------------------------------------------------------
\* Mutant: the catch block logs the error and returns
ConnectToDatabase_NoExit ==
    /\ main = "client.connect"
    /\ \E ok \in BOOLEAN :
        /\ thrown' = ~ok
        /\ IF ok
           THEN itemsCollection' = "items" /\ usersCollection' = "users"
           ELSE UNCHANGED <<itemsCollection, usersCollection>>
    /\ main' = "connectToDatabase"
    /\ resp' = NoResp
    /\ UNCHANGED <<items, nextItemId, users, req, in, fresh, deleted>>

\* await client.connect() returns, and the handles are assigned, or it
\* rejects, and the catch block ends the process
ConnectToDatabase ==
    /\ main = "client.connect"
    /\ \E ok \in BOOLEAN :
        /\ thrown' = ~ok
        /\ IF ok
           THEN /\ itemsCollection' = "items"
                /\ usersCollection' = "users"
                /\ main' = "connectToDatabase"
           ELSE /\ main' = "exited"
                /\ UNCHANGED <<itemsCollection, usersCollection>>
    /\ resp' = NoResp
    /\ UNCHANGED <<items, nextItemId, users, req, in, fresh, deleted>>

\* await connectToDatabase() returns and startApplication calls app.listen
AppListen ==
    /\ main = "connectToDatabase"
    /\ main' = "listening"
    /\ thrown' = FALSE
    /\ resp' = NoResp
    /\ UNCHANGED <<items, nextItemId, users, req, in, fresh, deleted,
                   itemsCollection, usersCollection>>

StartApplication == ConnectToDatabase \/ AppListen

\* ------------------------------------------------------------------------
\* GET /items
\* ------------------------------------------------------------------------
GetItems(r) ==
    /\ main = "listening"
    /\ req[r].pc = "idle"
    /\ thrown' = FALSE
    /\ req' = [req EXCEPT ![r] = [Idle EXCEPT !.pc = "items.find"]]
    /\ resp' = NoResp
    /\ UNCHANGED <<main, itemsCollection, usersCollection, items, nextItemId, users, fresh, deleted>>

\* Mutant: the catch block leaves the request unanswered and calls find again
GetItemsReturn_Retry(r) ==
    /\ req[r].pc = "items.find"
    /\ \E ok \in BOOLEAN :
        /\ thrown' = ~ok
        /\ IF ok
           THEN /\ resp' = Response("GET /items", NoId, 200, "", 0, Undefined, Undefined, items)
                /\ req' = [req EXCEPT ![r] = Idle]
           ELSE /\ resp' = NoResp
                /\ req' = req
    /\ UNCHANGED <<main, itemsCollection, usersCollection, in, items, nextItemId, users, fresh, deleted>>

GetItemsReturn(r) ==
    /\ req[r].pc = "items.find"
    /\ \E ok \in BOOLEAN :
        /\ thrown' = ~ok
        /\ resp' = IF ok
                   THEN Response("GET /items", NoId, 200, "", 0, Undefined, Undefined, items)
                   ELSE Message("GET /items", NoId,
                            500, "Failed to retrieve items due to server error.")
    /\ req' = [req EXCEPT ![r] = Idle]
    /\ UNCHANGED <<main, itemsCollection, usersCollection, in, items, nextItemId, users, fresh, deleted>>

\* ------------------------------------------------------------------------
\* POST /items
\* ------------------------------------------------------------------------

\* Mutant: the sign of the price is not checked
PostItemsInvalid_NoSign(name, price) == ~Truthy(name) \/ TypeOf(price) # "number"

PostItemsInvalid(name, price) ==
    \/ ~Truthy(name)
    \/ TypeOf(price) # "number"
    \/ price.n <= 0

PostItems(r, body) ==
    /\ main = "listening"
    /\ req[r].pc = "idle"
    /\ thrown' = FALSE
    /\ IF PostItemsInvalid(body.name, body.price)
       THEN /\ resp' = Message("POST /items", NoId,
                           400, "Name (string) and positive Price (number) are required!")
            /\ req' = req
       ELSE /\ nextItemId + Pending({"items.insertOne"}) <= MaxItems
            /\ resp' = NoResp
            /\ req' = [req EXCEPT ![r] = [Idle EXCEPT !.pc = "items.insertOne",
                                                      !.name = body.name,
                                                      !.price = body.price]]
    /\ UNCHANGED <<main, itemsCollection, usersCollection, items, nextItemId, users, fresh, deleted>>

\* Mutant: the price is left out of the inserted document
InsertedItem_NoPrice(name, price) == [name |-> BsonSerialize(name), price |-> Null]

InsertedItem(name, price) == [name |-> BsonSerialize(name), price |-> BsonSerialize(price)]

PostItemsReturn(r) ==
    /\ req[r].pc = "items.insertOne"
    /\ \E ok \in BOOLEAN :
        /\ thrown' = ~ok
        /\ IF ok
           THEN /\ items' = items @@ (nextItemId :> InsertedItem(req[r].name, req[r].price))
                /\ nextItemId' = nextItemId + 1
                /\ fresh' = fresh @@ (nextItemId :> [name |-> req[r].name, price |-> req[r].price])
                /\ resp' = Response("POST /items", NoId,
                               201, "", nextItemId, req[r].name, req[r].price, EmptyItems)
           ELSE /\ resp' = Message("POST /items", NoId, 500, "Failed to create item.")
                /\ UNCHANGED <<items, nextItemId, fresh>>
    /\ req' = [req EXCEPT ![r] = Idle]
    /\ UNCHANGED <<main, itemsCollection, usersCollection, in, users, deleted>>

\* ------------------------------------------------------------------------
\* GET /items/:id
\* ------------------------------------------------------------------------

GetItem(r, requestedID) ==
    /\ main = "listening"
    /\ req[r].pc = "idle"
    /\ thrown' = FALSE
    /\ IF ~ObjectIdIsValid(requestedID)
       THEN /\ resp' = Message("GET /items/:id", requestedID,
                           400, "Invalid ID format. Must be a valid MongoDB ObjectId.")
            /\ req' = req
       ELSE /\ resp' = NoResp
            /\ req' = [req EXCEPT ![r] = [Idle EXCEPT !.pc = "items.findOne",
                                                      !.requestedID = requestedID]]
    /\ UNCHANGED <<main, itemsCollection, usersCollection, items, nextItemId, users, fresh, deleted>>

GetItemReturn(r) ==
    /\ req[r].pc = "items.findOne"
    /\ LET id == NewObjectId(req[r].requestedID) IN
       \E ok \in BOOLEAN :
        /\ thrown' = ~ok
        /\ resp' = IF ~ok
                   THEN Message("GET /items/:id", req[r].requestedID,
                            500, "Failed to retrieve item due to server error.")
                   ELSE IF id \in DOMAIN items
                   THEN Response("GET /items/:id", req[r].requestedID,
                            200, "", id, items[id].name, items[id].price, EmptyItems)
                   ELSE Message("GET /items/:id", req[r].requestedID, 404, "Item not found!")
    /\ req' = [req EXCEPT ![r] = Idle]
    /\ UNCHANGED <<main, itemsCollection, usersCollection, in, items, nextItemId, users, fresh, deleted>>

\* ------------------------------------------------------------------------
\* DELETE /items/:id
\* ------------------------------------------------------------------------

\* Mutant: the 400 is sent without `return` and the handler goes on
DeleteItem_NoReturn(r, requestedID) ==
    /\ main = "listening"
    /\ req[r].pc = "idle"
    /\ thrown' = FALSE
    /\ resp' = IF ~ObjectIdIsValid(requestedID)
               THEN Message("DELETE /items/:id", requestedID,
                        400, "Invalid ID format. Must be a valid MongoDB ObjectId.")
               ELSE NoResp
    /\ req' = [req EXCEPT ![r] = [Idle EXCEPT !.pc = "items.deleteOne",
                                              !.requestedID = requestedID]]
    /\ UNCHANGED <<main, itemsCollection, usersCollection, items, nextItemId, users, fresh, deleted>>

DeleteItem(r, requestedID) ==
    /\ main = "listening"
    /\ req[r].pc = "idle"
    /\ thrown' = FALSE
    /\ IF ~ObjectIdIsValid(requestedID)
       THEN /\ resp' = Message("DELETE /items/:id", requestedID,
                           400, "Invalid ID format. Must be a valid MongoDB ObjectId.")
            /\ req' = req
       ELSE /\ resp' = NoResp
            /\ req' = [req EXCEPT ![r] = [Idle EXCEPT !.pc = "items.deleteOne",
                                                      !.requestedID = requestedID]]
    /\ UNCHANGED <<main, itemsCollection, usersCollection, items, nextItemId, users, fresh, deleted>>

\* Mutant: deleteOne reports the deletion and keeps the document
DeleteOne_Keeps(coll, id) == coll

\* deleteOne({_id}): the collection afterwards
DeleteOne(coll, id) == Without(coll, id)

\* Mutant: deletedCount tells whether the document was ever created
DeletedCount_Stale(coll, id) == IF id < nextItemId THEN 1 ELSE 0

\* deleteOne({_id}): result.deletedCount
DeletedCount(coll, id) == IF id \in DOMAIN coll THEN 1 ELSE 0

DeleteItemReturn(r) ==
    /\ req[r].pc = "items.deleteOne"
    /\ LET id == NewObjectId(req[r].requestedID) IN
       \E ok \in BOOLEAN :
        /\ thrown' = ~ok
        /\ IF ~ok
           THEN /\ resp' = Message("DELETE /items/:id", req[r].requestedID,
                               500, "Failed to delete item due to server error.")
                /\ UNCHANGED <<items, fresh, deleted>>
           ELSE /\ items' = DeleteOne(items, id)
                /\ fresh' = Without(fresh, id)
                /\ IF DeletedCount(items, id) = 1
                   THEN /\ resp' = Message("DELETE /items/:id", req[r].requestedID,
                                       200, "Item has been deleted!")
                        /\ deleted' = deleted \cup {id}
                   ELSE /\ resp' = Message("DELETE /items/:id", req[r].requestedID,
                                       404, "Item not found!")
                        /\ deleted' = deleted
    /\ req' = [req EXCEPT ![r] = Idle]
    /\ UNCHANGED <<main, itemsCollection, usersCollection, in, nextItemId, users>>

\* ------------------------------------------------------------------------
\* PUT /items/:id
\* ------------------------------------------------------------------------
\* Mutant: the keys of req are counted instead of those of req.body, so the
\* count is never 0
ObjectKeysLength_OfReq(body) ==
    1 + (IF body.name.t # "undefined" THEN 1 ELSE 0)
      + (IF body.price.t # "undefined" THEN 1 ELSE 0)

\* Object.keys(req.body).length
ObjectKeysLength(body) ==
    (IF body.name.t # "undefined" THEN 1 ELSE 0)
      + (IF body.price.t # "undefined" THEN 1 ELSE 0)
      + (IF body.extra THEN 1 ELSE 0)

NameRejected(name) == Truthy(name) /\ TypeOf(name) # "string"

PriceRejected(price) == Truthy(price) /\ (TypeOf(price) # "number" \/ price.n <= 0)

PutItem(r, requestedID, body) ==
    /\ main = "listening"
    /\ req[r].pc = "idle"
    /\ thrown' = FALSE
    /\ IF ~ObjectIdIsValid(requestedID)
       THEN /\ resp' = Message("PUT /items/:id", requestedID,
                           400, "Invalid ID format. Must be a valid MongoDB ObjectId.")
            /\ req' = req
       ELSE IF ObjectKeysLength(body) = 0
       THEN /\ resp' = Message("PUT /items/:id", requestedID,
                           400, "Request body cannot be empty for update.")
            /\ req' = req
       ELSE IF NameRejected(body.name)
       THEN /\ resp' = Message("PUT /items/:id", requestedID,
                           400, "Name must be a string if provided.")
            /\ req' = req
       ELSE IF PriceRejected(body.price)
       THEN /\ resp' = Message("PUT /items/:id", requestedID,
                           400, "Price must be a positive number if provided.")
            /\ req' = req
       ELSE /\ resp' = NoResp
            /\ req' = [req EXCEPT ![r] = [Idle EXCEPT !.pc = "items.updateOne",
                                                      !.requestedID = requestedID,
                                                      !.name = body.name,
                                                      !.price = body.price]]
    /\ UNCHANGED <<main, itemsCollection, usersCollection, items, nextItemId, users, fresh, deleted>>

\* The document after { $set: newData }, newData = {name, price}
SetFields(doc, name, price) ==
    [doc EXCEPT !.name = BsonSerialize(name), !.price = BsonSerialize(price)]

\* Mutant: updateOne with upsert, inserting the document it does not match
UpdateOne_Upsert(coll, id, name, price) ==
    [i \in DOMAIN coll \cup {id} |->
        IF i = id
        THEN [name |-> BsonSerialize(name), price |-> BsonSerialize(price)]
        ELSE coll[i]]

\* updateOne({_id}, {$set: newData}): the collection afterwards
UpdateOne(coll, id, name, price) ==
    IF id \in DOMAIN coll
    THEN [coll EXCEPT ![id] = SetFields(coll[id], name, price)]
    ELSE coll

\* Mutant: matchedCount counts the documents the filter does not match
MatchedCount_Inverted(coll, id) == IF id \in DOMAIN coll THEN 0 ELSE 1

\* updateOne({_id}, {$set: newData}): result.matchedCount
MatchedCount(coll, id) == IF id \in DOMAIN coll THEN 1 ELSE 0

ModifiedCount(coll, id, name, price) ==
    IF id \in DOMAIN coll /\ SetFields(coll[id], name, price) # coll[id] THEN 1 ELSE 0

PutItemReturn(r) ==
    /\ req[r].pc = "items.updateOne"
    /\ LET id == NewObjectId(req[r].requestedID)
           name == req[r].name
           price == req[r].price
       IN
       \E ok \in BOOLEAN :
        /\ thrown' = ~ok
        /\ IF ~ok
           THEN /\ resp' = Message("PUT /items/:id", req[r].requestedID,
                               500, "Failed to update item due to server error.")
                /\ UNCHANGED <<items, fresh>>
           ELSE /\ items' = UpdateOne(items, id, name, price)
                /\ fresh' = Without(fresh, id)
                /\ resp' = IF MatchedCount(items, id) = 0
                           THEN Message("PUT /items/:id", req[r].requestedID, 404, "Item not found!")
                           ELSE IF ModifiedCount(items, id, name, price) = 0
                           THEN Message("PUT /items/:id", req[r].requestedID,
                                    200, "Item found, but no changes applied (data was identical).")
                           ELSE Response("PUT /items/:id", req[r].requestedID,
                                    200, "Item updated successfully!", id,
                                         Undefined, Undefined, EmptyItems)
    /\ req' = [req EXCEPT ![r] = Idle]
    /\ UNCHANGED <<main, itemsCollection, usersCollection, in, nextItemId, users, deleted>>

\* ------------------------------------------------------------------------
\* POST /register
\* ------------------------------------------------------------------------
\* Mutant: the limit is 5 characters
TooShort_Five(password) == password.t = "string" /\ Len(password.s) < 5

\* password.length < 6 (the length of a value that is no string is
\* undefined, and undefined < 6 is false)
TooShort(password) == password.t = "string" /\ Len(password.s) < 6

Register(r, username, password) ==
    /\ main = "listening"
    /\ req[r].pc = "idle"
    /\ thrown' = FALSE
    /\ IF ~Truthy(username) \/ ~Truthy(password)
       THEN /\ resp' = Message("POST /register", NoId,
                           400, "Enter a username and password to register.")
            /\ req' = req
       ELSE IF TooShort(password)
       THEN /\ resp' = Message("POST /register", NoId,
                           400, "Password must be less than 6 characters")
            /\ req' = req
       ELSE /\ Len(users) + Pending({"users.findOne", "bcrypt.genSalt", "bcrypt.hash",
                                     "users.insertOne"}) < MaxUsers
            /\ resp' = NoResp
            /\ req' = [req EXCEPT ![r] = [Idle EXCEPT !.pc = "users.findOne",
                                                      !.username = username,
                                                      !.password = password]]
    /\ UNCHANGED <<main, itemsCollection, usersCollection, items, nextItemId, users, fresh, deleted>>

\* usersCollection.findOne({username}) found a document
UserExists(coll, username) == \E i \in DOMAIN coll : coll[i].username = username

RegisterFindOneReturn(r) ==
    /\ req[r].pc = "users.findOne"
    /\ \E ok \in BOOLEAN :
        /\ thrown' = ~ok
        /\ IF ~ok
           THEN /\ resp' = Message("POST /register", NoId, 500, "Server error during registration.")
                /\ req' = [req EXCEPT ![r] = Idle]
           ELSE IF UserExists(users, req[r].username)
           THEN /\ resp' = Message("POST /register", NoId,
                               409, "User already exists pls try another name!")
                /\ req' = [req EXCEPT ![r] = Idle]
           ELSE /\ resp' = NoResp
                /\ req' = [req EXCEPT ![r].pc = "bcrypt.genSalt"]
    /\ UNCHANGED <<main, itemsCollection, usersCollection, in, items, nextItemId, users, fresh, deleted>>

RegisterGenSaltReturn(r) ==
    /\ req[r].pc = "bcrypt.genSalt"
    /\ \E salt \in Salts :
        req' = [req EXCEPT ![r].pc = "bcrypt.hash", ![r].salt = salt]
    /\ resp' = NoResp
    /\ thrown' = FALSE
    /\ UNCHANGED <<main, itemsCollection, usersCollection, in, items, nextItemId, users, fresh, deleted>>

\* bcrypt.hash rejects a password that is not a string
RegisterHashReturn(r) ==
    /\ req[r].pc = "bcrypt.hash"
    /\ thrown' = (TypeOf(req[r].password) # "string")
    /\ IF TypeOf(req[r].password) = "string"
       THEN /\ resp' = NoResp
            /\ req' = [req EXCEPT ![r].pc = "users.insertOne",
                                  ![r].hashedPassword =
                                      BcryptHash(req[r].password, req[r].salt)]
       ELSE /\ resp' = Message("POST /register", NoId, 500, "Server error during registration.")
            /\ req' = [req EXCEPT ![r] = Idle]
    /\ UNCHANGED <<main, itemsCollection, usersCollection, in, items, nextItemId, users, fresh, deleted>>

NewUser(username, hashedPassword) == [username |-> username, password |-> hashedPassword]

\* Mutant: the 201 body is the stored document
Registered_Echo(newUser, insertedId) ==
    [Response("POST /register", NoId, 201, "User registered successfully!", insertedId,
              newUser.username, Undefined, EmptyItems)
        EXCEPT !.password = newUser.password]

\* res.status(201).json({ message, userId: result.insertedId })
Registered(newUser, insertedId) ==
    Response("POST /register", NoId, 201, "User registered successfully!", insertedId,
             Undefined, Undefined, EmptyItems)

RegisterInsertOneReturn(r) ==
    /\ req[r].pc = "users.insertOne"
    /\ \E ok \in BOOLEAN :
        /\ thrown' = ~ok
        /\ IF ok
           THEN /\ users' = Append(users, NewUser(req[r].username, req[r].hashedPassword))
                /\ resp' = Registered(NewUser(req[r].username, req[r].hashedPassword),
                                      Len(users) + 1)
           ELSE /\ resp' = Message("POST /register", NoId, 500, "Server error during registration.")
                /\ users' = users
    /\ req' = [req EXCEPT ![r] = Idle]
    /\ UNCHANGED <<main, itemsCollection, usersCollection, in, items, nextItemId, fresh, deleted>>

\* ------------------------------------------------------------------------
\* The router and the specifications
\* ------------------------------------------------------------------------
NoBody == [name |-> Undefined, price |-> Undefined, extra |-> FALSE]

\* A request as the router receives it: method and path pattern, the path
\* identifier, the JSON body
Request(op, requestedID, body, username, password) ==
    [op |-> op, requestedID |-> requestedID, body |-> body, username |-> username,
     password |-> password]

ItemRequest(op, requestedID, body) == Request(op, requestedID, body, Undefined, Undefined)

RegisterRequest(username, password) ==
    Request("POST /register", NoId, NoBody, username, password)

\* Requests on /items, up to MaxInFlight of them suspended at a time
ItemsNext ==
    \/ StartApplication
    \/ \E r \in Slots :
        \/ GetItems(r) /\ UNCHANGED in
        \/ \E body \in Bodies : PostItems(r, body) /\ UNCHANGED in
        \/ \E id \in IdInputs : GetItem(r, id) /\ UNCHANGED in
        \/ \E id \in IdInputs : DeleteItem(r, id) /\ UNCHANGED in
        \/ \E id \in IdInputs, body \in Bodies : PutItem(r, id, body) /\ UNCHANGED in
        \/ GetItemsReturn(r)
        \/ PostItemsReturn(r)
        \/ GetItemReturn(r)
        \/ DeleteItemReturn(r)
        \/ PutItemReturn(r)

\* Requests on /register, up to MaxInFlight of them suspended at a time
UsersNext ==
    \/ StartApplication
    \/ \E r \in Slots :
        \/ \E username \in UsernameInputs, password \in PasswordInputs :
               Register(r, username, password) /\ UNCHANGED in
        \/ RegisterFindOneReturn(r)
        \/ RegisterGenSaltReturn(r)
        \/ RegisterHashReturn(r)
        \/ RegisterInsertOneReturn(r)

\* Requests on /items from a client that waits for each response before it
\* sends the next request; the request dispatched last is kept in `in`
ItemsSeqNext ==
    \/ StartApplication
    \/ GetItems(1) /\ in' = ItemRequest("GET /items", NoId, NoBody)
    \/ \E body \in Bodies :
           PostItems(1, body) /\ in' = ItemRequest("POST /items", NoId, body)
    \/ \E id \in IdInputs :
           GetItem(1, id) /\ in' = ItemRequest("GET /items/:id", id, NoBody)
    \/ \E id \in IdInputs :
           DeleteItem(1, id) /\ in' = ItemRequest("DELETE /items/:id", id, NoBody)
    \/ \E id \in IdInputs, body \in Bodies :
           PutItem(1, id, body) /\ in' = ItemRequest("PUT /items/:id", id, body)
    \/ GetItemsReturn(1)
    \/ PostItemsReturn(1)
    \/ GetItemReturn(1)
    \/ DeleteItemReturn(1)
    \/ PutItemReturn(1)

\* Requests on /register from a client that waits for each response
UsersSeqNext ==
    \/ StartApplication
    \/ \E username \in UsernameInputs, password \in PasswordInputs :
           Register(1, username, password) /\ in' = RegisterRequest(username, password)
    \/ RegisterFindOneReturn(1)
    \/ RegisterGenSaltReturn(1)
    \/ RegisterHashReturn(1)
    \/ RegisterInsertOneReturn(1)

\* Every request, from a client that waits for each response; the requests
\* are not recorded
SerialNext ==
    \/ StartApplication
    \/ GetItems(1) /\ UNCHANGED in
    \/ \E body \in Bodies : PostItems(1, body) /\ UNCHANGED in
    \/ \E id \in IdInputs : GetItem(1, id) /\ UNCHANGED in
    \/ \E id \in IdInputs : DeleteItem(1, id) /\ UNCHANGED in
    \/ \E id \in IdInputs, body \in Bodies : PutItem(1, id, body) /\ UNCHANGED in
    \/ \E username \in UsernameInputs, password \in PasswordInputs :
           Register(1, username, password) /\ UNCHANGED in
    \/ GetItemsReturn(1)
    \/ PostItemsReturn(1)
    \/ GetItemReturn(1)
    \/ DeleteItemReturn(1)
    \/ PutItemReturn(1)
    \/ RegisterFindOneReturn(1)
    \/ RegisterGenSaltReturn(1)
    \/ RegisterHashReturn(1)
    \/ RegisterInsertOneReturn(1)

\* Creations, reads and deletions of items, up to MaxInFlight of them
\* suspended at a time
DeleteRaceNext ==
    \/ StartApplication
    \/ \E r \in Slots :
        \/ PostItems(r, [name |-> Str("Pen"), price |-> Num(1), extra |-> FALSE])
              /\ UNCHANGED in
        \/ \E id \in IdInputs : GetItem(r, id) /\ UNCHANGED in
        \/ \E id \in IdInputs : DeleteItem(r, id) /\ UNCHANGED in
        \/ PostItemsReturn(r)
        \/ GetItemReturn(r)
        \/ DeleteItemReturn(r)

Next == ItemsNext \/ UsersNext

\* Every request, on both collections, interleaved
Spec == Init /\ [][Next]_vars

\* The requests on /items, interleaved
SpecItems == Init /\ [][ItemsNext]_vars

\* The requests on /register, interleaved
SpecUsers == Init /\ [][UsersNext]_vars

\* The requests on /items, one at a time
SpecItemsSeq == Init /\ [][ItemsSeqNext]_vars

\* The requests on /register, one at a time
SpecUsersSeq == Init /\ [][UsersSeqNext]_vars

\* POST /items, GET and DELETE /items/:id, interleaved
SpecDeleteRace == Init /\ [][DeleteRaceNext]_vars

\* Every request, on both collections, one at a time
SpecSerial == Init /\ [][SerialNext]_vars

\* A call the handler awaits settles, and the handler resumes
Resume(r) ==
    \/ GetItemsReturn(r)
    \/ PostItemsReturn(r)
    \/ GetItemReturn(r)
    \/ DeleteItemReturn(r)
    \/ PutItemReturn(r)
    \/ RegisterFindOneReturn(r)
    \/ RegisterGenSaltReturn(r)
    \/ RegisterHashReturn(r)
    \/ RegisterInsertOneReturn(r)

\* Every request, one at a time, where each awaited call eventually returns
\* or fails
SpecSerialFair == SpecSerial /\ WF_vars(Resume(1))

\* ------------------------------------------------------------------------
\* Steps, as the properties below name them
\* ------------------------------------------------------------------------
\* The handler suspended in slot r at await `pc` resumes and answers
Answered(r, pc) == req[r].pc = pc /\ req'[r].pc = "idle"

\* In the one-at-a-time specifications: a request of route op is dispatched
Dispatched(op) == req[1].pc = "idle" /\ in'.op = op

StoreUntouched == UNCHANGED <<items, nextItemId, users>>

\* ------------------------------------------------------------------------
\* C1: no two persisted users have the same username, also when POST
\* /register requests interleave at findOne / hash / insertOne.
\* ------------------------------------------------------------------------
C1_UniqueUsernames ==
    \A i, j \in DOMAIN users : i # j => users[i].username # users[j].username

\* ------------------------------------------------------------------------
\* C2: every persisted item has a non-empty name and a price that is a
\* number strictly greater than 0.
\* ------------------------------------------------------------------------
NonEmptyName(v) == v.t \notin {"undefined", "null"} /\ ~(v.t = "string" /\ v.s = "")

PositivePrice(v) == v.t = "number" /\ v.n > 0

C2_PersistedItemsValid ==
    \A id \in DOMAIN items : NonEmptyName(items[id].name) /\ PositivePrice(items[id].price)

\* ------------------------------------------------------------------------
\* C3: a successful PUT /items/{id} changes only the fields present in the
\* body: name without price leaves the stored price as it was, price
\* without name leaves the stored name as it was.
\* ------------------------------------------------------------------------
Present(v) == v.t # "undefined"

C3_PartialUpdate ==
    [][(Answered(1, "items.updateOne") /\ resp'.status = 200) =>
         LET id == NewObjectId(in.requestedID) IN
           /\ (Present(in.body.name) /\ ~Present(in.body.price))
                 => items'[id].price = items[id].price
           /\ (Present(in.body.price) /\ ~Present(in.body.name))
                 => items'[id].name = items[id].name]_vars

\* ------------------------------------------------------------------------
\* C4: a POST /items whose price is absent, not a number, or <= 0 is
\* answered 400, insertOne is not called and the items collection is left
\* as it was.
\* ------------------------------------------------------------------------
BadPrice(v) == ~Present(v) \/ v.t # "number" \/ v.n <= 0

C4_BadPriceRejected ==
    [][(Dispatched("POST /items") /\ BadPrice(in'.body.price)) =>
         /\ resp'.op = "POST /items" /\ resp'.status = 400
         /\ req' = req
         /\ StoreUntouched]_vars

C4_Witness ==
    /\ in.op = "POST /items"
    /\ in.body.name = Str("Pen")
    /\ BadPrice(in.body.price)
    /\ resp.op = "POST /items" /\ resp.status = 400
    /\ req[1].pc = "idle"

\* ------------------------------------------------------------------------
\* C5: a POST /items whose name is absent, not a string, or the empty
\* string is answered 400 and the store is not called, whatever the price.
\* ------------------------------------------------------------------------
BadName(v) == ~Present(v) \/ v.t # "string" \/ v.s = ""

C5_BadNameRejected ==
    [][(Dispatched("POST /items") /\ BadName(in'.body.name)) =>
         /\ resp'.op = "POST /items" /\ resp'.status = 400
         /\ req' = req
         /\ StoreUntouched]_vars

\* ------------------------------------------------------------------------
\* C6: with an identifier that is not in ObjectId format, GET, PUT and
\* DELETE /items/{id} answer 400 and make no store call, whatever the body.
\* ------------------------------------------------------------------------
Malformed(id) == ~id.hex

ById == {"GET /items/:id", "PUT /items/:id", "DELETE /items/:id"}

C6_MalformedIdRejected ==
    [][\A op \in ById :
         (Dispatched(op) /\ Malformed(in'.requestedID)) =>
            /\ resp'.op = op /\ resp'.status = 400
            /\ req' = req
            /\ StoreUntouched]_vars

C6_Witness ==
    /\ in.op = "PUT /items/:id"
    /\ Malformed(in.requestedID)
    /\ in.body = [name |-> Str("Pen"), price |-> Num(1), extra |-> FALSE]
    /\ resp.op = "PUT /items/:id" /\ resp.status = 400
    /\ req[1].pc = "idle"
    /\ items # EmptyItems

\* ------------------------------------------------------------------------
\* C7: round trip.  After a Create answered 201 with a generated id, a
\* Get-by-id of that id, with no Update or Delete of it in between, answers
\* 200 with the name and the price the Create request sent.
\* ------------------------------------------------------------------------
C7_RoundTrip ==
    [][\A r \in Slots :
         LET id == NewObjectId(req[r].requestedID) IN
         (Answered(r, "items.findOne") /\ id \in DOMAIN fresh /\ resp'.status # 500) =>
            /\ resp'.status = 200
            /\ resp'.id = id
            /\ resp'.name = fresh[id].name
            /\ resp'.price = fresh[id].price]_vars

C7_Witness ==
    /\ resp.op = "GET /items/:id" /\ resp.status = 200
    /\ resp.id \in DOMAIN fresh
    /\ resp.name = fresh[resp.id].name /\ resp.price = fresh[resp.id].price
    /\ resp.name = Str("Pen") /\ resp.price = Num(2)
    /\ in.op = "GET /items/:id" /\ NewObjectId(in.requestedID) = resp.id

EmptyBody(body) == ~Present(body.name) /\ ~Present(body.price) /\ ~body.extra

C9_EmptyBodyRejected ==
    [][(Dispatched("PUT /items/:id") /\ EmptyBody(in'.body)) =>
         /\ resp'.op = "PUT /items/:id" /\ resp'.status = 400
         /\ req' = req
         /\ StoreUntouched]_vars

C9_Witness ==
    /\ in.op = "PUT /items/:id"
    /\ EmptyBody(in.body)
    /\ in.requestedID.hex /\ NewObjectId(in.requestedID) \in DOMAIN items
    /\ resp.op = "PUT /items/:id" /\ resp.status = 400
    /\ req[1].pc = "idle"

\* ------------------------------------------------------------------------
\* C10: for an existing item, an Update whose provided fields all equal the
\* stored values answers 200 "no changes" (never 404, never "updated") and
\* leaves the item as it was.
\* ------------------------------------------------------------------------
Identical(body, doc) ==
    /\ Present(body.name) \/ Present(body.price)
    /\ Present(body.name) => body.name = doc.name
    /\ Present(body.price) => body.price = doc.price

C10_IdenticalUpdate ==
    [][LET id == NewObjectId(in.requestedID) IN
       (/\ Answered(1, "items.updateOne")
        /\ resp'.status # 500
        /\ id \in DOMAIN items
        /\ Identical(in.body, items[id])) =>
          /\ resp'.status = 200
          /\ resp'.message = "Item found, but no changes applied (data was identical)."
          /\ items' = items]_vars

\* ------------------------------------------------------------------------
\* C11: a PUT /items/{id} with a well-formed id and a non-empty body is
\* answered 400, and updateOne is not called, when name is present and not
\* a string or price is present and not a number or <= 0 (0 included).
\* ------------------------------------------------------------------------
NameNotString(v) == Present(v) /\ v.t # "string"

PriceNotPositive(v) == Present(v) /\ (v.t # "number" \/ v.n <= 0)

C11_BadFieldsRejected ==
    [][(/\ Dispatched("PUT /items/:id")
        /\ ~Malformed(in'.requestedID)
        /\ ~EmptyBody(in'.body)
        /\ NameNotString(in'.body.name) \/ PriceNotPositive(in'.body.price)) =>
          /\ resp'.op = "PUT /items/:id" /\ resp'.status = 400
          /\ req' = req
          /\ StoreUntouched]_vars

\* ------------------------------------------------------------------------
\* C12: of two POST /register with the same username and valid passwords,
\* sent one after the other, the first is answered 201 and the second 409
\* and the second inserts no user (a store call that fails is answered
\* 500); no response body holds the password hash or the plaintext.
\* ------------------------------------------------------------------------
ValidPassword(v) == v.t = "string" /\ Len(v.s) >= 6

Discloses(body, password) ==
    \/ body.password # NoHash
    \/ Present(password) /\ (body.name = password \/ body.price = password)
    \/ password.t = "string" /\ body.message = password.s

C12_SecondRegistrationConflicts ==
    [][/\ resp' # NoResp => ~Discloses(resp', in'.password)
       /\ (/\ req[1].pc # "idle" /\ req'[1].pc = "idle"
           /\ Truthy(in.username) /\ ValidPassword(in.password)
           /\ resp'.status # 500) =>
             IF UserExists(users, in.username)
             THEN resp'.status = 409 /\ users' = users
             ELSE /\ resp'.status = 201
                  /\ Len(users') = Len(users) + 1
                  /\ users'[Len(users')].username = in.username
                  /\ resp'.id = Len(users')]_vars

C12_Witness ==
    /\ in.op = "POST /register" /\ in.username = Str("ann")
    /\ ValidPassword(in.password)
    /\ resp.status = 409
    /\ Len(users) = 1 /\ users[1].username = Str("ann")
    /\ users[1].password = BcryptHash(in.password, "salt")

\* ------------------------------------------------------------------------
\* C13: a POST /register whose username or password is missing or empty,
\* or whose password has fewer than 6 characters, is answered 400 before
\* any store call and persists no user; a password of at least 6
\* characters passes the length check.
\* ------------------------------------------------------------------------
MissingOrEmpty(v) == ~Present(v) \/ v.t = "null" \/ (v.t = "string" /\ v.s = "")

FewerThanSix(v) == v.t = "string" /\ Len(v.s) < 6

C13_RegisterValidation ==
    [][Dispatched("POST /register") =>
         LET u == in'.username
             p == in'.password
         IN /\ (MissingOrEmpty(u) \/ MissingOrEmpty(p) \/ FewerThanSix(p)) =>
                  /\ resp'.op = "POST /register" /\ resp'.status = 400
                  /\ req' = req
                  /\ StoreUntouched
            /\ (~MissingOrEmpty(u) /\ ValidPassword(p)) =>
                  /\ resp' = NoResp
                  /\ req'[1].pc = "users.findOne"
                  /\ StoreUntouched]_vars

C13_Witness ==
    /\ in.op = "POST /register" /\ in.username = Str("bob")
    /\ in.password = Str("12345")
    /\ resp.op = "POST /register" /\ resp.status = 400
    /\ req[1].pc = "idle"
    /\ ~UserExists(users, Str("bob"))

\* ------------------------------------------------------------------------
\* C16: an Update with a well-formed id that matches no item and a valid
\* non-empty body answers 404 and creates nothing (no upsert): the persisted
\* items are the same after as before; an Update never changes the id of
\* the item it matches, nor any other item.
\* ------------------------------------------------------------------------
C16_NoUpsert ==
    [][Answered(1, "items.updateOne") =>
         LET id == NewObjectId(in.requestedID) IN
           /\ DOMAIN items' = DOMAIN items
           /\ nextItemId' = nextItemId
           /\ \A i \in DOMAIN items \ {id} : items'[i] = items[i]
           /\ (id \notin DOMAIN items /\ resp'.status # 500) =>
                 /\ resp'.op = "PUT /items/:id" /\ resp'.status = 404
                 /\ items' = items]_vars

C16_Witness ==
    /\ in.op = "PUT /items/:id"
    /\ in.body = [name |-> Str("Pen"), price |-> Num(2), extra |-> FALSE]
    /\ in.requestedID.hex /\ NewObjectId(in.requestedID) \notin DOMAIN items
    /\ resp.op = "PUT /items/:id" /\ resp.status = 404
    /\ resp.requestedID = in.requestedID

\* ------------------------------------------------------------------------
\* C14: in each of the six handlers, a store call that fails is answered
\* 500 and is not retried: the request ends with that answer, and a request
\* issues each of its calls at most once.
\* ------------------------------------------------------------------------
StoreCalls ==
    {"items.find", "items.insertOne", "items.findOne", "items.deleteOne",
     "items.updateOne", "users.findOne", "users.insertOne"}

\* The calls a request may still issue once the call `pc` has returned
Later(pc) ==
    IF pc = "users.findOne" THEN {"bcrypt.genSalt", "bcrypt.hash", "users.insertOne"}
    ELSE IF pc = "bcrypt.genSalt" THEN {"bcrypt.hash", "users.insertOne"}
    ELSE IF pc = "bcrypt.hash" THEN {"users.insertOne"}
    ELSE {}

C14_StoreFailureIs500 ==
    [][/\ (thrown' /\ main = "listening") =>
            /\ resp'.status = 500
            /\ \E r \in Slots :
                 /\ req[r].pc \in StoreCalls \cup {"bcrypt.hash"}
                 /\ req' = [req EXCEPT ![r] = Idle]
            /\ StoreUntouched
       /\ \A r \in Slots :
            (req[r].pc # "idle" /\ req'[r].pc # "idle") =>
                \/ req'[r] = req[r] /\ ~thrown'
                \/ req'[r].pc \in Later(req[r].pc) /\ resp' = NoResp]_vars

C14_Witness ==
    /\ thrown
    /\ resp.op = "PUT /items/:id" /\ resp.status = 500
    /\ NewObjectId(resp.requestedID) \in DOMAIN items
    /\ users # <<>>
    /\ req[1].pc = "idle"

\* ------------------------------------------------------------------------
\* C15: the server listens only after the connection has succeeded and both
\* collection handles are assigned; if the connection fails the process
\* ends and never listens; no handler runs with an unassigned handle.
\* ------------------------------------------------------------------------
HandlesAssigned == itemsCollection # Unassigned /\ usersCollection # Unassigned

C15_StartupOrder ==
    [][/\ (main' = "listening" /\ main # "listening") =>
            main = "connectToDatabase" /\ ~thrown /\ HandlesAssigned
       /\ (main = "client.connect" /\ thrown') =>
            main' = "exited" /\ ~HandlesAssigned'
       /\ main # "listening" => (resp' = NoResp /\ req' = req /\ StoreUntouched)
       /\ (resp' # NoResp \/ \E r \in Slots : req'[r].pc # "idle") =>
            main' = "listening" /\ HandlesAssigned'
       /\ HandlesAssigned => UNCHANGED <<itemsCollection, usersCollection>>]_vars

C15_Witness ==
    /\ main = "listening" /\ HandlesAssigned
    /\ req[1].pc = "users.insertOne"
    /\ items # EmptyItems

\* ------------------------------------------------------------------------
\* C17: of the DELETE /items/{id} requests for one existing id that are
\* suspended at deleteOne together, exactly one is answered 200 and every
\* other one 404, provided no deleteOne fails.
\* ------------------------------------------------------------------------
C17_OneDeleteWins ==
    [][/\ deleted' \cap DOMAIN items' = {}
       /\ \A r \in Slots :
            LET id == NewObjectId(req[r].requestedID) IN
            (Answered(r, "items.deleteOne") /\ ~thrown') =>
               /\ resp'.op = "DELETE /items/:id"
               /\ resp'.status = (IF id \in DOMAIN items THEN 200 ELSE 404)
               /\ resp'.status = 200 => id \notin deleted /\ id \in deleted'
               /\ id \notin DOMAIN items'
               /\ \A q \in Slots \ {r} : req'[q] = req[q]]_vars

C17_Witness ==
    /\ resp.op = "DELETE /items/:id" /\ resp.status = 200
    /\ NewObjectId(resp.requestedID) \in deleted
    /\ \E q \in Slots :
         /\ req[q].pc = "items.deleteOne"
         /\ req[q].requestedID = resp.requestedID

\* ------------------------------------------------------------------------
\* C18: every request is answered exactly once: a response is sent only by
\* the step that ends its request, every step that ends a request sends
\* one, no call is pending for an answered request, and, each awaited call
\* returning or failing in the end, every request is answered.
\* ------------------------------------------------------------------------
Statuses == {200, 201, 400, 404, 409, 500}

C18_AnsweredOnce ==
    /\ [][\A r \in Slots :
            /\ (req[r].pc = "idle" /\ req'[r].pc # "idle") => resp' = NoResp
            /\ (req[r].pc # "idle" /\ req'[r].pc = "idle") => resp'.status \in Statuses
            /\ (req[r].pc # "idle" /\ req'[r].pc # "idle") => resp' = NoResp
            /\ (main = "listening" /\ req' = req) => resp'.status \in Statuses
            /\ resp' # NoResp => (req' = req \/ \E q \in Slots : req' = [req EXCEPT ![q] = Idle])
            /\ req[r].pc = "idle" => req[r] = Idle]_vars
    /\ \A r \in Slots : (req[r].pc # "idle") ~> (req[r].pc = "idle" /\ resp # NoResp)

C18_Witness ==
    /\ resp.op = "POST /register" /\ resp.status = 201
    /\ req[1] = Idle
    /\ Len(users) = 1
    /\ items # EmptyItems

\* ------------------------------------------------------------------------
\* C19: GET /items and GET /items/{id} never modify the store; a request
\* answered 400, 404 or 409 leaves the items and the users collection as
\* they were; no request on /items changes the users collection and POST
\* /register never changes the items collection.
\* ------------------------------------------------------------------------
ItemCalls ==
    {"items.find", "items.insertOne", "items.findOne", "items.deleteOne", "items.updateOne"}

RegisterCalls == {"users.findOne", "bcrypt.genSalt", "bcrypt.hash", "users.insertOne"}

\* The step is taken by a handler of one of the routes `calls` belong to
StepOf(calls, ops) ==
    \/ resp'.op \in ops
    \/ \E r \in Slots : req'[r] # req[r] /\ (req[r].pc \in calls \/ req'[r].pc \in calls)

C19_Frames ==
    [][/\ StepOf({"items.find", "items.findOne"}, {"GET /items", "GET /items/:id"}) =>
            StoreUntouched
       /\ resp'.status \in {400, 404, 409} => StoreUntouched
       /\ (\A r \in Slots : req[r].pc = "idle") => StoreUntouched
       /\ StepOf(ItemCalls, {"GET /items", "POST /items"} \cup ById) => users' = users
       /\ StepOf(RegisterCalls, {"POST /register"}) =>
            items' = items /\ nextItemId' = nextItemId]_vars

C19_Witness ==
    /\ resp.op = "POST /register" /\ resp.status = 409
    /\ items # EmptyItems
    /\ users # <<>>
    /\ req[1] = Idle

====
